---------------------------- MODULE Spec2Model ----------------------------
(***************************************************************************)
(* Model of test_reporting/junit_xml_parser.py: the JUnit XML validator    *)
(* (validate_junit_xml_stream / validate_junit_xml_file) and the           *)
(* tree-to-JSON transformer (parse_test_result).                           *)
(*                                                                         *)
(* A Python str is a tuple of one-character strings; None is a tuple that  *)
(* holds a token no character equals.  An XML element is a record          *)
(* [tag, attrib, children]: attrib is a function whose DOMAIN is the set   *)
(* of attributes the element carries, children the child elements in       *)
(* document order.                                                         *)
(***************************************************************************)
EXTENDS Integers, Sequences, FiniteSets, TLC

VARIABLES input, hashOrder, runs, result, prev, record

vars == <<input, hashOrder, runs, result, prev, record>>

(***************************************************************************)
(* Python values                                                           *)
(***************************************************************************)
None == <<"<None>">>

\* bool(v) of a str-or-None value: None and "" are falsy.
Truthy(v) == v # None /\ v # << >>

EmptyAttrib == [k \in {} |-> None]

NoElement == [tag |-> "<None>", attrib |-> EmptyAttrib, children |-> << >>]

\* Element.__bool__: an element with no children is falsy, like None.
ElementTruthy(e) == e # NoElement /\ Len(e.children) # 0

get(e, key) == IF key \in DOMAIN e.attrib THEN e.attrib[key] ELSE None

getDefault(e, key, default) ==
    IF key \in DOMAIN e.attrib THEN e.attrib[key] ELSE default

keys(e) == DOMAIN e.attrib

findall(e, tag) == SelectSeq(e.children, LAMBDA c : c.tag = tag)

find(e, tag) ==
    LET hits == findall(e, tag)
    IN  IF hits = << >> THEN NoElement ELSE Head(hits)

iterfind(e, tag) == findall(e, tag)

\* The index of the first sep in s at or after i; Len(s) + 1 when none.
RECURSIVE IndexFrom(_, _, _)
IndexFrom(s, sep, i) ==
    IF i > Len(s) THEN Len(s) + 1
    ELSE IF s[i] = sep THEN i
    ELSE IndexFrom(s, sep, i + 1)

\* str.split(sep): the list of the tokens between the separators.
RECURSIVE split(_, _)
split(s, sep) ==
    LET i == IndexFrom(s, sep, 1)
    IN  IF i > Len(s) THEN << s >>
        ELSE << SubSeq(s, 1, i - 1) >> \o split(SubSeq(s, i + 1, Len(s)), sep)

Digits == {"0", "1", "2", "3", "4", "5", "6", "7", "8", "9"}

AllDigits(s) == \A i \in 1..Len(s) : s[i] \in Digits

\* float(s) returns (does not raise) for a decimal literal: an optional
\* sign, then digits with an optional point, or a point and digits.
\* (s holds no whitespace, exponent, underscore, inf or nan here.)
ParsesAsFloat(s) ==
    LET body == IF s # << >> /\ Head(s) \in {"+", "-"} THEN Tail(s) ELSE s
        dot  == IndexFrom(body, ".", 1)
        int  == SubSeq(body, 1, dot - 1)
        frac == SubSeq(body, dot + 1, Len(body))
    IN  /\ AllDigits(int)
        /\ AllDigits(frac)
        /\ Len(int) + Len(frac) > 0

(***************************************************************************)
(* Schema constants                                                        *)
(***************************************************************************)
MAXIMUM_XML_SIZE == 100000000

TESTSUITE_TAG == "testsuite"

REQUIRED_TESTSUITE_ATTRIBUTES == {"time", "tests", "skipped", "failures", "errors"}

METADATA_TAG == "properties"

METADATA_PROPERTY_TAG == "property"

REQUIRED_METADATA_PROPERTIES ==
    << <<"t","o","p","o","l","o","g","y">>,
       <<"m","a","r","k","e","r","s">>,
       <<"h","o","s","t">>,
       <<"a","s","i","c">>,
       <<"p","l","a","t","f","o","r","m">>,
       <<"h","w","s","k","u">>,
       <<"o","s","_","v","e","r","s","i","o","n">> >>

TESTCASE_TAG == "testcase"

REQUIRED_TESTCASE_ATTRIBUTES == <<"classname", "file", "line", "name", "time">>

Range(seq) == {seq[i] : i \in DOMAIN seq}

(***************************************************************************)
(* Validation outcomes.  A JUnitXMLValidationError is a record: kind is    *)
(* the fixed part of its message, field and text the interpolated parts.   *)
(***************************************************************************)
Ok == [ok |-> TRUE, kind |-> "", field |-> "", text |-> << >>]

JUnitXMLValidationError(kind, field, text) ==
    [ok |-> FALSE, kind |-> kind, field |-> field, text |-> text]


(***************************************************************************)
(* _validate_test_summary: the root tag, then each required suite          *)
(* attribute in the iteration order of the set                             *)
(* REQUIRED_TESTSUITE_ATTRIBUTES, which is the order argument (a           *)
(* permutation of the set, fixed for one process run).                     *)
(***************************************************************************)
RECURSIVE SummaryLoop(_, _, _)
SummaryLoop(root, order, i) ==
    IF i > Len(order) THEN Ok
    ELSE LET xml_field == order[i]
         IN  IF xml_field \notin keys(root)
             THEN JUnitXMLValidationError("not found in <testsuite> element",
                                          xml_field, << >>)
             ELSE IF ~ParsesAsFloat(get(root, xml_field))
             THEN JUnitXMLValidationError("invalid type: expected a number",
                                          xml_field, get(root, xml_field))
             ELSE SummaryLoop(root, order, i + 1)

validate_test_summary(root, order) ==
    IF root.tag # TESTSUITE_TAG
    THEN JUnitXMLValidationError("testsuite tag not found on root element", "", << >>)
    ELSE SummaryLoop(root, order, 1)

(***************************************************************************)
(* _validate_test_metadata                                                 *)
(***************************************************************************)
\* MetadataLoop that never appends to seen_properties.
RECURSIVE MetadataLoopForgetsSeen(_, _, _)
MetadataLoopForgetsSeen(props, i, seen_properties) ==
    IF i > Len(props) THEN Ok
    ELSE LET prop           == props[i]
             property_name  == getDefault(prop, "name", None)
             property_value == getDefault(prop, "value", None)
         IN  IF ~Truthy(property_name)
             THEN JUnitXMLValidationError("invalid metadata element: name not found",
                                          "", << >>)
             ELSE IF property_name \notin Range(REQUIRED_METADATA_PROPERTIES)
             THEN JUnitXMLValidationError("unexpected metadata element",
                                          "", property_name)
             ELSE IF property_name \in Range(seen_properties)
             THEN JUnitXMLValidationError("duplicate metadata element",
                                          "", property_name)
             ELSE IF property_value = None
             THEN JUnitXMLValidationError("invalid metadata element: no value",
                                          "", property_name)
             ELSE MetadataLoopForgetsSeen(props, i + 1, seen_properties)

RECURSIVE MetadataLoop(_, _, _)
MetadataLoop(props, i, seen_properties) ==
    IF i > Len(props) THEN Ok
    ELSE LET prop           == props[i]
             property_name  == getDefault(prop, "name", None)
             property_value == getDefault(prop, "value", None)
         IN  IF ~Truthy(property_name)
             THEN JUnitXMLValidationError("invalid metadata element: name not found",
                                          "", << >>)
             ELSE IF property_name \notin Range(REQUIRED_METADATA_PROPERTIES)
             THEN JUnitXMLValidationError("unexpected metadata element",
                                          "", property_name)
             ELSE IF property_name \in Range(seen_properties)
             THEN JUnitXMLValidationError("duplicate metadata element",
                                          "", property_name)
             ELSE IF property_value = None
             THEN JUnitXMLValidationError("invalid metadata element: no value",
                                          "", property_name)
             ELSE MetadataLoop(props, i + 1, Append(seen_properties, property_name))

validate_test_metadata(root) ==
    LET properties_element == find(root, "properties")
    IN  IF ~ElementTruthy(properties_element)
        THEN JUnitXMLValidationError("metadata element <properties> not found",
                                     "", << >>)
        ELSE MetadataLoop(iterfind(properties_element, METADATA_PROPERTY_TAG),
                          1, << >>)

(***************************************************************************)
(* _validate_test_cases.  The failure and error checks sit inside the loop *)
(* over the required attributes: they run after each attribute's check.    *)
(***************************************************************************)
\* TestCaseLoop without the check of the failure message.
RECURSIVE TestCaseLoopSkipsFailure(_, _)
TestCaseLoopSkipsFailure(test_case, i) ==
    IF i > Len(REQUIRED_TESTCASE_ATTRIBUTES) THEN Ok
    ELSE LET attribute == REQUIRED_TESTCASE_ATTRIBUTES[i]
             error     == find(test_case, "error")
         IN  IF attribute \notin keys(test_case)
             THEN JUnitXMLValidationError(
                      "not found in test case", attribute,
                      getDefault(test_case, "name",
                                 <<"N","a","m","e"," ","N","o","t"," ","F","o","u","n","d">>))
             ELSE IF error # NoElement /\ ~Truthy(get(error, "message"))
             THEN JUnitXMLValidationError("no message found for error",
                                          "", get(test_case, "name"))
             ELSE TestCaseLoopSkipsFailure(test_case, i + 1)

RECURSIVE TestCaseLoop(_, _)
TestCaseLoop(test_case, i) ==
    IF i > Len(REQUIRED_TESTCASE_ATTRIBUTES) THEN Ok
    ELSE LET attribute == REQUIRED_TESTCASE_ATTRIBUTES[i]
             failure   == find(test_case, "failure")
             error     == find(test_case, "error")
         IN  IF attribute \notin keys(test_case)
             THEN JUnitXMLValidationError(
                      "not found in test case", attribute,
                      getDefault(test_case, "name",
                                 <<"N","a","m","e"," ","N","o","t"," ","F","o","u","n","d">>))
             ELSE IF failure # NoElement /\ get(failure, "message") = None
             THEN JUnitXMLValidationError("no message found for failure",
                                          "", get(test_case, "name"))
             ELSE IF error # NoElement /\ ~Truthy(get(error, "message"))
             THEN JUnitXMLValidationError("no message found for error",
                                          "", get(test_case, "name"))
             ELSE TestCaseLoop(test_case, i + 1)

validate_test_case(test_case) == TestCaseLoop(test_case, 1)

RECURSIVE TestCasesLoop(_, _)
TestCasesLoop(cases, i) ==
    IF i > Len(cases) THEN Ok
    ELSE LET r == validate_test_case(cases[i])
         IN  IF ~r.ok THEN r ELSE TestCasesLoop(cases, i + 1)

validate_test_cases(root) ==
    LET cases == findall(root, TESTCASE_TAG)
    IN  IF Len(cases) <= 0
        THEN JUnitXMLValidationError("No test cases found", "", << >>)
        ELSE TestCasesLoop(cases, 1)

(***************************************************************************)
(* The entry points.  A run of an entry point is the outcome it returns or *)
(* raises and the trace of the guards it evaluated, in order.              *)
(***************************************************************************)
Run(entry, outcome, trace) ==
    [entry |-> entry, outcome |-> outcome, trace |-> trace]

\* validate_junit_xml with the metadata guard called before the summary guard.
validate_junit_xml_metadata_first(entry, root, order, trace) ==
    LET metadata == validate_test_metadata(root)
    IN  IF ~metadata.ok THEN Run(entry, metadata, trace \o <<"metadata">>)
        ELSE LET summary == validate_test_summary(root, order)
             IN  IF ~summary.ok
                 THEN Run(entry, summary, trace \o <<"metadata", "summary">>)
                 ELSE Run(entry, validate_test_cases(root),
                          trace \o <<"metadata", "summary", "cases">>)

validate_junit_xml(entry, root, order, trace) ==
    LET summary == validate_test_summary(root, order)
    IN  IF ~summary.ok THEN Run(entry, summary, trace \o <<"summary">>)
        ELSE LET metadata == validate_test_metadata(root)
             IN  IF ~metadata.ok
                 THEN Run(entry, metadata, trace \o <<"summary", "metadata">>)
                 ELSE Run(entry, validate_test_cases(root),
                          trace \o <<"summary", "metadata", "cases">>)

\* sys.getsizeof(stream): the size of the Python object that holds the
\* document, its header included.
getsizeof(in) == in.size + in.overhead

validate_junit_xml_stream(in, order) ==
    IF getsizeof(in) > MAXIMUM_XML_SIZE
    THEN Run("stream",
             JUnitXMLValidationError("provided stream is too large", "", << >>),
             <<"size">>)
    ELSE IF ~in.wellformed
    THEN Run("stream",
             JUnitXMLValidationError("could not parse provided XML stream", "", << >>),
             <<"size", "parse">>)
    ELSE validate_junit_xml("stream", in.root, order, <<"size", "parse">>)

\* os.path.getsize(document_name)
getsize(in) == in.size

validate_junit_xml_file(in, order) ==
    IF ~in.exists \/ ~in.isfile
    THEN Run("file", JUnitXMLValidationError("file not found", "", << >>),
             <<"exists">>)
    ELSE IF getsize(in) > MAXIMUM_XML_SIZE
    THEN Run("file",
             JUnitXMLValidationError("provided file is too large", "", << >>),
             <<"exists", "size">>)
    ELSE IF ~in.wellformed
    THEN Run("file",
             JUnitXMLValidationError("could not parse provided XML document", "", << >>),
             <<"exists", "size", "parse">>)
    ELSE validate_junit_xml("file", in.root, order, <<"exists", "size", "parse">>)

(***************************************************************************)
(* The transformer.  A dict is a function; test_cases, whose key order is  *)
(* its insertion order, is the sequence of its items [feature, results].   *)
(* An exception other than a validation error (a method called on None)    *)
(* is the record Raised.                                                   *)
(***************************************************************************)
Put(d, k, v) == [x \in DOMAIN d \cup {k} |-> IF x = k THEN v ELSE d[x]]

EmptyDict == [k \in {} |-> None]

Raised == [status |-> "raised"]

parse_test_summary(root) ==
    [attribute \in REQUIRED_TESTSUITE_ATTRIBUTES |-> get(root, attribute)]

\* ParseMetadataLoop that keeps every property whose value is not None.
RECURSIVE ParseMetadataLoopKeepsEmpty(_, _, _)
ParseMetadataLoopKeepsEmpty(props, i, test_result_metadata) ==
    IF i > Len(props) THEN test_result_metadata
    ELSE LET prop == props[i]
         IN  ParseMetadataLoopKeepsEmpty(
                 props, i + 1,
                 IF get(prop, "value") # None
                 THEN Put(test_result_metadata, get(prop, "name"), get(prop, "value"))
                 ELSE test_result_metadata)

RECURSIVE ParseMetadataLoop(_, _, _)
ParseMetadataLoop(props, i, test_result_metadata) ==
    IF i > Len(props) THEN test_result_metadata
    ELSE LET prop == props[i]
         IN  ParseMetadataLoop(
                 props, i + 1,
                 IF Truthy(get(prop, "value"))
                 THEN Put(test_result_metadata, get(prop, "name"), get(prop, "value"))
                 ELSE test_result_metadata)

parse_test_metadata(root) ==
    LET properties_element == find(root, METADATA_TAG)
    IN  IF properties_element = NoElement THEN Raised
        ELSE [status |-> "ok",
              value  |-> ParseMetadataLoop(iterfind(properties_element, "property"),
                                           1, EmptyDict)]

parse_test_case(test_case) ==
    LET classname == get(test_case, "classname")
        test_class_tokens == split(classname, ".")
        feature == test_class_tokens[1]
        attrs   == [attribute \in Range(REQUIRED_TESTCASE_ATTRIBUTES) |->
                        get(test_case, attribute)]
        failure == find(test_case, "failure")
        withF   == IF failure # NoElement
                   THEN Put(attrs, "failure", get(failure, "message"))
                   ELSE attrs
        error   == find(test_case, "error")
        withE   == IF error # NoElement
                   THEN Put(withF, "error", get(error, "message"))
                   ELSE withF
    IN  IF classname = None THEN Raised
        ELSE [status |-> "ok", feature |-> feature, result |-> withE]

\* AppendTo that puts the result at the head of its bucket.
AppendToHead(test_case_results, feature, res) ==
    IF \E j \in DOMAIN test_case_results : test_case_results[j].feature = feature
    THEN [j \in DOMAIN test_case_results |->
             IF test_case_results[j].feature = feature
             THEN [test_case_results[j] EXCEPT !.results = << res >> \o @]
             ELSE test_case_results[j]]
    ELSE Append(test_case_results, [feature |-> feature, results |-> << res >>])

\* test_case_results[feature].append(result) on a defaultdict(list)
AppendTo(test_case_results, feature, res) ==
    IF \E j \in DOMAIN test_case_results : test_case_results[j].feature = feature
    THEN [j \in DOMAIN test_case_results |->
             IF test_case_results[j].feature = feature
             THEN [test_case_results[j] EXCEPT !.results = Append(@, res)]
             ELSE test_case_results[j]]
    ELSE Append(test_case_results, [feature |-> feature, results |-> << res >>])

RECURSIVE ParseCasesLoop(_, _, _)
ParseCasesLoop(cases, i, test_case_results) ==
    IF i > Len(cases) THEN [status |-> "ok", value |-> test_case_results]
    ELSE LET parsed == parse_test_case(cases[i])
         IN  IF parsed.status = "raised" THEN Raised
             ELSE ParseCasesLoop(cases, i + 1,
                      AppendTo(test_case_results, parsed.feature, parsed.result))

parse_test_cases(root) == ParseCasesLoop(findall(root, "testcase"), 1, << >>)

parse_test_result(root) ==
    LET test_summary  == parse_test_summary(root)
        test_metadata == parse_test_metadata(root)
        test_cases    == parse_test_cases(root)
    IN  IF test_metadata.status = "raised" \/ test_cases.status = "raised"
        THEN Raised
        ELSE [status        |-> "ok",
              test_summary  |-> test_summary,
              test_metadata |-> test_metadata.value,
              test_cases    |-> test_cases.value]

(***************************************************************************)
(* Documents.  An input is a document where it lives: whether the path     *)
(* exists and is a regular file, the document's size in bytes, the header  *)
(* size of the Python object that holds it as a stream, whether the        *)
(* hardened parser accepts it, and the tree the parser returns.            *)
(***************************************************************************)
Element(tag, attrib, children) ==
    [tag |-> tag, attrib |-> attrib, children |-> children]

\* The attributes of an element from a total map: a None entry is absent.
Attrib(f) == [k \in {x \in DOMAIN f : f[x] # None} |-> f[k]]

Input(exists, isfile, size, overhead, wellformed, root) ==
    [exists |-> exists, isfile |-> isfile, size |-> size, overhead |-> overhead,
     wellformed |-> wellformed, root |-> root]

Topology == REQUIRED_METADATA_PROPERTIES[1]

Host == REQUIRED_METADATA_PROPERTIES[3]

Property(name, value) ==
    Element("property", Attrib([name |-> name, value |-> value]), << >>)

Properties(children) == Element("properties", EmptyAttrib, children)

Message(tag, message) == Element(tag, Attrib([message |-> message]), << >>)

TestCase(classname, file, line, name, time, children) ==
    Element("testcase",
            Attrib([classname |-> classname, file |-> file, line |-> line,
                    name |-> name, time |-> time]),
            children)

SeqsUpTo(S, n) == UNION {[1..k -> S] : k \in 0..n}

BaseSummary == [a \in REQUIRED_TESTSUITE_ATTRIBUTES |-> <<"3">>]

BaseProperties == Properties(<< Property(Topology, <<"t", "0">>) >>)

BaseCase == TestCase(<<"a", ".", "b">>, <<"f">>, <<"1">>, <<"n">>, <<"1">>, << >>)

SmallSize == 4096

\* sys.getsizeof of an empty bytes and of an empty str object (CPython 3.11)
ObjectOverheads == {33, 49}

\* A document in a regular file, small and well-formed, with the given tree.
Plain(root) == Input(TRUE, TRUE, SmallSize, 49, TRUE, root)

\* Iteration orders of the set REQUIRED_TESTSUITE_ATTRIBUTES: string hashing
\* is seeded per process, so each process run has one of its permutations.
AllOrders ==
    {o \in [1..5 -> REQUIRED_TESTSUITE_ATTRIBUTES] :
        \A i, j \in 1..5 : i # j => o[i] # o[j]}

SampleOrders ==
    { <<"time", "tests", "skipped", "failures", "errors">>,
      <<"errors", "failures", "skipped", "tests", "time">> }

(***************************************************************************)
(* Bounds of the document sets                                             *)
(***************************************************************************)
MaxProps == 2

MaxCases == 2

MaxClassLen == 2

MaxOffending == 2

MaxRuns == 2

Root(tag, summary, children) == Element(tag, Attrib(summary), children)

\* Documents for the order of the guards: each guard met or violated.
GuardSummaries ==
    { BaseSummary,
      [BaseSummary EXCEPT !["time"] = None],
      [BaseSummary EXCEPT !["tests"] = <<"x">>] }

GuardContainers ==
    { << >>,
      << Properties(<< >>) >>,
      << BaseProperties >>,
      << Properties(<< Property(<<"x">>, <<"v">>) >>) >> }

GuardCases ==
    { << >>,
      << BaseCase >>,
      << TestCase(<<"a", ".", "b">>, <<"f">>, <<"1">>, <<"n">>, None, << >>) >> }

GuardRoots ==
    { Root(tag, summary, container \o cases) :
        tag \in {"testsuite", "testsuites"}, summary \in GuardSummaries,
        container \in GuardContainers, cases \in GuardCases }

Paths == { <<TRUE, TRUE>>, <<TRUE, FALSE>>, <<FALSE, FALSE>> }

GuardInputs ==
    { Input(p[1], p[2], size, 49, TRUE, root) :
        p \in Paths, size \in {SmallSize, MAXIMUM_XML_SIZE + 1}, root \in GuardRoots }
    \cup
    { Input(p[1], p[2], size, 49, FALSE, NoElement) :
        p \in Paths, size \in {SmallSize, MAXIMUM_XML_SIZE + 1} }

BaseRoot == Root("testsuite", BaseSummary, << BaseProperties, BaseCase >>)

\* Documents whose size is at the ceiling or just under or over it.
SizeInputs ==
    { Input(TRUE, TRUE, MAXIMUM_XML_SIZE + d, overhead, TRUE, BaseRoot) :
        d \in -50..1, overhead \in ObjectOverheads }

\* Documents for the metadata guard: the container absent, or present with
\* up to MaxProps properties and possibly a child that is no property.
PropNames == { None, << >>, Topology, Host, <<"x">> }

PropValues == { None, << >>, <<"t", "0">> }

PropVariants == { Property(n, v) : n \in PropNames, v \in PropValues }

OtherChildren == { << >>, << Element("description", EmptyAttrib, << >>) >> }

MetaContainers ==
    { << >> } \cup
    { << Properties(props \o other) >> :
        props \in SeqsUpTo(PropVariants, MaxProps), other \in OtherChildren }

MetaInputs ==
    { Plain(Root("testsuite", BaseSummary, container \o << BaseCase >>)) :
        container \in MetaContainers }

\* Documents for the test-case guard: up to MaxCases cases, each with or
\* without classname and name, a failure and an error sub-element.
Messages(tag) ==
    { << >>, << Message(tag, None) >>, << Message(tag, << >>) >>,
      << Message(tag, <<"m">>) >> }

CaseVariants ==
    { TestCase(a[1], <<"f">>, <<"1">>, a[2], <<"1">>, failure \o error) :
        a \in { << <<"a", ".", "b">>, <<"n">> >>,
                << None, <<"n">> >>,
                << <<"a", ".", "b">>, None >> },
        failure \in Messages("failure"), error \in Messages("error") }

CaseInputs ==
    { Plain(Root("testsuite", BaseSummary, << BaseProperties >> \o cases)) :
        cases \in SeqsUpTo(CaseVariants, MaxCases) }

\* Documents for the records: up to MaxCases cases, each with or without
\* classname, a failure and an error sub-element.
MirrorVariants ==
    { TestCase(c, <<"f">>, <<"1">>, <<"n">>, <<"1">>, failure \o error) :
        c \in { <<"a", ".", "b">>, None },
        failure \in Messages("failure"),
        error \in Messages("error") \ { << Message("error", << >>) >> } }

MirrorInputs ==
    { Plain(Root("testsuite", BaseSummary, << BaseProperties >> \o cases)) :
        cases \in SeqsUpTo(MirrorVariants, MaxCases) }

\* Documents for the grouping: up to MaxCases cases whose classname is any
\* string over {a, .} of length up to MaxClassLen.
ClassNames == SeqsUpTo({"a", "."}, MaxClassLen)

GroupCases ==
    { TestCase(c, <<"f">>, <<"1">>, <<"n">>, <<"1">>, << >>) : c \in ClassNames }

GroupInputs ==
    { Plain(Root("testsuite", BaseSummary, << BaseProperties >> \o cases)) :
        cases \in SeqsUpTo(GroupCases, MaxCases) }

\* Documents for the summary guard: each suite attribute numeric, absent or
\* not a number, at most MaxOffending of them offending.
SummaryMaps ==
    { m \in [REQUIRED_TESTSUITE_ATTRIBUTES -> {None, <<"3">>, <<"x">>}] :
        Cardinality({a \in REQUIRED_TESTSUITE_ATTRIBUTES : m[a] # <<"3">>})
            <= MaxOffending }

SummaryInputs ==
    { Plain(Root("testsuite", m, << BaseProperties, BaseCase >>)) : m \in SummaryMaps }

(***************************************************************************)
(* State: the document at hand, the set iteration order of this process    *)
(* run, the number of process runs so far, the latest run of an entry      *)
(* point, the one before it, and the record parse_test_result returned for *)
(* the validated tree.                                                     *)
(***************************************************************************)
NoRun == [entry |-> "none"]

NoRecord == [status |-> "none"]

InitWith(inputs, orders) ==
    /\ input \in inputs
    /\ hashOrder \in orders
    /\ runs = 1
    /\ result = NoRun
    /\ prev = NoRun
    /\ record = NoRecord

Init == InitWith(GuardInputs \cup SizeInputs, SampleOrders)

InitMeta == InitWith(MetaInputs, SampleOrders)

InitCases == InitWith(CaseInputs, SampleOrders)

InitMirror == InitWith(MirrorInputs, SampleOrders)

InitGroup == InitWith(GroupInputs, SampleOrders)

InitRuns == InitWith(SummaryInputs, SampleOrders)

Validated(run) ==
    /\ result' = run
    /\ prev' = IF result.entry # "none" THEN result ELSE prev
    /\ record' = NoRecord
    /\ UNCHANGED <<input, hashOrder, runs>>

ValidateStream == Validated(validate_junit_xml_stream(input, hashOrder))

ValidateFile == Validated(validate_junit_xml_file(input, hashOrder))

\* _run_script: the validated root is parsed, once.
ParseTestResult ==
    /\ result.entry # "none"
    /\ result.outcome.ok
    /\ record = NoRecord
    /\ record' = parse_test_result(input.root)
    /\ UNCHANGED <<input, hashOrder, runs, result, prev>>

\* The script is run again on the same document, in a new process.
NewProcess ==
    /\ result.entry # "none"
    /\ runs < MaxRuns
    /\ runs' = runs + 1
    /\ hashOrder' \in AllOrders
    /\ prev' = result
    /\ result' = NoRun
    /\ record' = NoRecord
    /\ UNCHANGED input

Next == ValidateStream \/ ValidateFile \/ ParseTestResult

NextRuns == Next \/ NewProcess

Spec == Init /\ [][Next]_vars

SpecMeta == InitMeta /\ [][Next]_vars

SpecCases == InitCases /\ [][Next]_vars

SpecMirror == InitMirror /\ [][Next]_vars

SpecGroup == InitGroup /\ [][Next]_vars

SpecRuns == InitRuns /\ [][NextRuns]_vars

(***************************************************************************)
(* The order of the guards                                                 *)
(***************************************************************************)
GuardOrder(entry) ==
    IF entry = "file"
    THEN <<"exists", "size", "parse", "summary", "metadata", "cases">>
    ELSE <<"size", "parse", "summary", "metadata", "cases">>

\* What one guard alone says of an input: Ok, or its failure.  The guards
\* on the tree say nothing of a document that has no tree.
GuardAlone(guard, entry, in, order) ==
    CASE guard = "exists" ->
            IF ~in.exists \/ ~in.isfile
            THEN JUnitXMLValidationError("file not found", "", << >>) ELSE Ok
      [] guard = "size" ->
            IF entry = "file"
            THEN IF in.size > MAXIMUM_XML_SIZE
                 THEN JUnitXMLValidationError("provided file is too large", "", << >>)
                 ELSE Ok
            ELSE IF in.size + in.overhead > MAXIMUM_XML_SIZE
                 THEN JUnitXMLValidationError("provided stream is too large", "", << >>)
                 ELSE Ok
      [] guard = "parse" ->
            IF in.wellformed THEN Ok
            ELSE IF entry = "file"
            THEN JUnitXMLValidationError("could not parse provided XML document",
                                         "", << >>)
            ELSE JUnitXMLValidationError("could not parse provided XML stream",
                                         "", << >>)
      [] guard = "summary" ->
            IF in.wellformed THEN validate_test_summary(in.root, order) ELSE Ok
      [] guard = "metadata" ->
            IF in.wellformed THEN validate_test_metadata(in.root) ELSE Ok
      [] guard = "cases" ->
            IF in.wellformed THEN validate_test_cases(in.root) ELSE Ok

ViolatedGuards(entry, in, order) ==
    {i \in DOMAIN GuardOrder(entry) :
        ~GuardAlone(GuardOrder(entry)[i], entry, in, order).ok}

Least(S) == CHOOSE i \in S : \A j \in S : i <= j

\* C3: an entry point evaluates its guards in the order (exists,) size,
\* parse, summary, metadata, test cases and stops at the first one the input
\* violates: the failure it raises is that guard's, the guards it evaluated
\* are those up to it and no later one; with no guard violated it evaluates
\* them all and succeeds.
C3_FirstViolatedGuardWins ==
    result.entry # "none" =>
        LET G   == GuardOrder(result.entry)
            bad == ViolatedGuards(result.entry, input, hashOrder)
        IN  IF bad = {}
            THEN result.outcome = Ok /\ result.trace = G
            ELSE /\ result.outcome =
                        GuardAlone(G[Least(bad)], result.entry, input, hashOrder)
                 /\ result.trace = SubSeq(G, 1, Least(bad))

\* An over-size stream whose tree also violates the summary and the metadata
\* guards was rejected on its size with nothing else evaluated.
C3_Witness ==
    /\ result.entry = "stream"
    /\ input.wellformed
    /\ {1, 3, 4} \subseteq ViolatedGuards("stream", input, hashOrder)
    /\ result.trace = <<"size">>
    /\ result.outcome.kind = "provided stream is too large"

TooLarge(run) ==
    run.outcome.kind \in {"provided stream is too large", "provided file is too large"}

\* C6: a document held in an existing regular file is rejected as too large
\* exactly when its size exceeds 100,000,000, by either entry point.
C6_SameCeilingForStreamAndFile ==
    (result.entry # "none" /\ input.exists /\ input.isfile) =>
        (TooLarge(result) <=> input.size > 100000000)

(***************************************************************************)
(* The metadata guard                                                      *)
(***************************************************************************)
Container(root) == find(root, "properties")

PropertyChildren(root) == findall(Container(root), "property")

NameOf(prop) == getDefault(prop, "name", None)

ValueOf(prop) == getDefault(prop, "value", None)

ClosedNames ==
    { <<"t","o","p","o","l","o","g","y">>, <<"m","a","r","k","e","r","s">>,
      <<"h","o","s","t">>, <<"a","s","i","c">>,
      <<"p","l","a","t","f","o","r","m">>, <<"h","w","s","k","u">>,
      <<"o","s","_","v","e","r","s","i","o","n">> }

\* C1: the container counts as absent only when no <properties> element is
\* under the root: with none, validation fails with the missing-container
\* failure; with one that has no property child (all other guards met),
\* validation passes.
C1_ContainerAbsentOnlyWhenMissing ==
    result.entry # "none" =>
        /\ Container(input.root) = NoElement =>
               result.outcome =
                   JUnitXMLValidationError("metadata element <properties> not found",
                                           "", << >>)
        /\ (Container(input.root) # NoElement /\ PropertyChildren(input.root) = << >>)
               => result.outcome.ok

\* The failures that describe what is wrong with the i-th property.
DefectsAt(props, i) ==
    LET n == NameOf(props[i])
    IN  (IF n = None \/ n = << >>
         THEN {JUnitXMLValidationError("invalid metadata element: name not found",
                                       "", << >>)}
         ELSE {})
        \cup
        (IF n # None /\ n # << >> /\ n \notin ClosedNames
         THEN {JUnitXMLValidationError("unexpected metadata element", "", n)}
         ELSE {})
        \cup
        (IF \E j \in 1..(i - 1) : NameOf(props[j]) = n
         THEN {JUnitXMLValidationError("duplicate metadata element", "", n)}
         ELSE {})
        \cup
        (IF "value" \notin keys(props[i])
         THEN {JUnitXMLValidationError("invalid metadata element: no value", "", n)}
         ELSE {})

Defective(props) == {i \in DOMAIN props : DefectsAt(props, i) # {}}

ScannedProperties(run) ==
    /\ run.entry # "none"
    /\ "metadata" \in Range(run.trace)
    /\ run.outcome.kind # "metadata element <properties> not found"

\* C7: the scan of the property children fails at the first property, in
\* document order, that has a missing or empty name, a name outside the
\* closed set, a name an earlier property carries, or no value: the failure
\* raised is one of that property's.  Two properties sharing a name are
\* never accepted, and with nothing else wrong the failure is the duplicate
\* one, raised at the second occurrence.  In a document that passes, the
\* names are pairwise distinct members of the closed set and every property
\* has a value.
C7_FailsAtFirstDefectiveProperty ==
    LET props == PropertyChildren(input.root)
    IN  /\ ScannedProperties(result) =>
               IF Defective(props) = {}
               THEN result.outcome.ok
               ELSE result.outcome \in DefectsAt(props, Least(Defective(props)))
        /\ (result.entry # "none" /\ result.outcome.ok) =>
               /\ \A i, j \in DOMAIN props :
                      i # j => NameOf(props[i]) # NameOf(props[j])
               /\ \A i \in DOMAIN props :
                      NameOf(props[i]) \in ClosedNames /\ ValueOf(props[i]) # None
        /\ (result.entry # "none"
              /\ \E i, j \in DOMAIN props :
                     i < j /\ NameOf(props[i]) = NameOf(props[j]))
               => ~result.outcome.ok
        /\ (/\ ScannedProperties(result)
            /\ Defective(props) # {}
            /\ \A i \in DOMAIN props :
                   NameOf(props[i]) \in ClosedNames /\ ValueOf(props[i]) # None)
               => result.outcome =
                      JUnitXMLValidationError(
                          "duplicate metadata element", "",
                          NameOf(props[Least(Defective(props))]))

\* Two properties named topology, each with a value: the duplicate failure.
C7_Witness ==
    LET props == PropertyChildren(input.root)
    IN  /\ result.entry # "none"
        /\ Len(props) = 2
        /\ NameOf(props[1]) = Topology /\ NameOf(props[2]) = Topology
        /\ ValueOf(props[1]) # None /\ ValueOf(props[2]) # None
        /\ result.outcome =
               JUnitXMLValidationError("duplicate metadata element", "", Topology)

\* C8: validate accepts properties whose value is the empty string, and the
\* test_metadata map of a validated document holds exactly the pairs
\* name -> value of the properties whose value is a non-empty string: no key
\* for a property whose value is empty.
C8_EmptyValueAcceptedAndOmitted ==
    LET props == PropertyChildren(input.root)
        kept  == {i \in DOMAIN props : ValueOf(props[i]) \notin {None, << >>}}
    IN  /\ (ScannedProperties(result)
              /\ \A i \in DOMAIN props :
                     /\ NameOf(props[i]) \in ClosedNames
                     /\ "value" \in keys(props[i])
                     /\ \A j \in DOMAIN props :
                            i # j => NameOf(props[i]) # NameOf(props[j]))
               => result.outcome.ok
        /\ record.status = "ok" =>
               /\ DOMAIN record.test_metadata = {NameOf(props[i]) : i \in kept}
               /\ \A i \in kept :
                      record.test_metadata[NameOf(props[i])] = ValueOf(props[i])
               /\ \A i \in DOMAIN props :
                      ValueOf(props[i]) = << >> =>
                          NameOf(props[i]) \notin DOMAIN record.test_metadata

\* topology with an empty value and host with a value: validated, and the
\* map holds host alone.
C8_Witness ==
    LET props == PropertyChildren(input.root)
    IN  /\ record.status = "ok"
        /\ Len(props) = 2
        /\ NameOf(props[1]) = Topology /\ ValueOf(props[1]) = << >>
        /\ NameOf(props[2]) = Host /\ ValueOf(props[2]) = <<"t", "0">>
        /\ DOMAIN record.test_metadata = {Host}

(***************************************************************************)
(* The test-case guard                                                     *)
(***************************************************************************)
Cases(root) == findall(root, "testcase")

RequiredCaseAttributes == {"classname", "file", "line", "name", "time"}

MissingAttributes(case) == RequiredCaseAttributes \ keys(case)

\* A failure or error sub-element whose message is missing or empty.
BadMessage(case, tag) ==
    /\ find(case, tag) # NoElement
    /\ get(find(case, tag), "message") \in {None, << >>}

InvalidCase(case) ==
    \/ MissingAttributes(case) # {}
    \/ BadMessage(case, "failure")
    \/ BadMessage(case, "error")

\* C2: a test case with a failure or an error sub-element whose message is
\* missing or empty makes validation fail (the other guards met).
C2_MissingOrEmptyMessageFails ==
    (result.entry # "none"
       /\ \E i \in DOMAIN Cases(input.root) :
              \/ BadMessage(Cases(input.root)[i], "failure")
              \/ BadMessage(Cases(input.root)[i], "error"))
        => ~result.outcome.ok

Placeholder == <<"N","a","m","e"," ","N","o","t"," ","F","o","u","n","d">>

\* C4: when a test case lacks a required attribute and no earlier case is
\* invalid, validation fails with the missing-attribute failure naming an
\* attribute the case lacks and the case's name (the placeholder when name
\* is what it lacks), with or without failure and error sub-elements in it.
C4_MissingAttributeReported ==
    result.entry # "none" =>
        \A i \in DOMAIN Cases(input.root) :
            LET case == Cases(input.root)[i]
            IN  (/\ MissingAttributes(case) # {}
                 /\ \A j \in 1..(i - 1) : ~InvalidCase(Cases(input.root)[j]))
                => /\ result.outcome.kind = "not found in test case"
                   /\ result.outcome.field \in MissingAttributes(case)
                   /\ result.outcome.text =
                          IF "name" \in keys(case) THEN case.attrib["name"]
                          ELSE Placeholder

(***************************************************************************)
(* The records                                                             *)
(***************************************************************************)
\* The record that mirrors a test-case element.
Mirror(case) ==
    [key \in RequiredCaseAttributes
             \cup (IF find(case, "failure") # NoElement THEN {"failure"} ELSE {})
             \cup (IF find(case, "error") # NoElement THEN {"error"} ELSE {}) |->
        IF key \in {"failure", "error"}
        THEN get(find(case, key), "message")
        ELSE get(case, key)]

Records(test_cases) ==
    UNION {Range(test_cases[b].results) : b \in DOMAIN test_cases}

RECURSIVE CountRecords(_, _)
CountRecords(test_cases, b) ==
    IF b > Len(test_cases) THEN 0
    ELSE Len(test_cases[b].results) + CountRecords(test_cases, b + 1)

\* C10: parse_test_result of a tree validate accepted does not raise; each
\* record is the mirror of a test-case element (the 5 required attributes
\* with their strings, failure iff it has a failure sub-element, error iff it
\* has an error sub-element), every element has its record, and no value of
\* a record, of test_summary or of test_metadata is None.
C10_RecordsMirrorValidatedTree ==
    record # NoRecord =>
        /\ record.status = "ok"
        /\ \A a \in DOMAIN record.test_summary : record.test_summary[a] # None
        /\ \A n \in DOMAIN record.test_metadata : record.test_metadata[n] # None
        /\ \A r \in Records(record.test_cases) : \A key \in DOMAIN r : r[key] # None
        /\ Records(record.test_cases) =
               {Mirror(Cases(input.root)[i]) : i \in DOMAIN Cases(input.root)}
        /\ CountRecords(record.test_cases, 1) = Len(Cases(input.root))

\* A validated case with a failure and an error has a record with both.
C10_Witness ==
    /\ record # NoRecord
    /\ \E i \in DOMAIN Cases(input.root) :
           /\ find(Cases(input.root)[i], "failure") # NoElement
           /\ find(Cases(input.root)[i], "error") # NoElement
    /\ \E r \in Records(record.test_cases) : {"failure", "error"} \subseteq DOMAIN r

(***************************************************************************)
(* The grouping by feature                                                 *)
(***************************************************************************)
\* The part of the classname before its first '.', all of it with no '.'.
FeatureOf(case) ==
    LET c    == get(case, "classname")
        dots == {i \in DOMAIN c : c[i] = "."}
    IN  IF dots = {} THEN c ELSE SubSeq(c, 1, Least(dots) - 1)

CasesOf(root, feature) ==
    SelectSeq(Cases(root), LAMBDA c : FeatureOf(c) = feature)

FirstSeen(root, feature) ==
    Least({i \in DOMAIN Cases(root) : FeatureOf(Cases(root)[i]) = feature})

\* C9: test_cases partitions the test cases by feature: the buckets have
\* pairwise distinct features, each the part of a classname before its first
\* '.'; a bucket holds the records of the cases of its feature, one each, in
\* document order; every case is in a bucket; the records number as many as
\* the cases; the buckets are in first-seen order of their features.
C9_PartitionByFeature ==
    record.status = "ok" =>
        LET tc == record.test_cases
        IN  /\ \A b, c \in DOMAIN tc : b # c => tc[b].feature # tc[c].feature
            /\ \A b \in DOMAIN tc :
                   LET sel == CasesOf(input.root, tc[b].feature)
                   IN  /\ sel # << >>
                       /\ Len(tc[b].results) = Len(sel)
                       /\ \A k \in DOMAIN sel : tc[b].results[k] = Mirror(sel[k])
            /\ \A i \in DOMAIN Cases(input.root) :
                   \E b \in DOMAIN tc : tc[b].feature = FeatureOf(Cases(input.root)[i])
            /\ CountRecords(tc, 1) = Len(Cases(input.root))
            /\ \A b, c \in DOMAIN tc :
                   b < c => FirstSeen(input.root, tc[b].feature)
                                < FirstSeen(input.root, tc[c].feature)

\* Classnames "a." and "a": one bucket "a" with the two records in order.
C9_Witness ==
    /\ record.status = "ok"
    /\ Len(Cases(input.root)) = 2
    /\ get(Cases(input.root)[1], "classname") = <<"a", ".">>
    /\ get(Cases(input.root)[2], "classname") = <<"a">>
    /\ Len(record.test_cases) = 1
    /\ record.test_cases[1].feature = <<"a">>
    /\ record.test_cases[1].results[1]["classname"] = <<"a", ".">>
    /\ record.test_cases[1].results[2]["classname"] = <<"a">>

(***************************************************************************)
(* Runs of the same entry point on the same document                       *)
(***************************************************************************)
\* C5: two invocations of the same entry point on the document, in one
\* process run or in two, both succeed or both fail with the same reason.
C5_SameOutcomeOnEveryRun ==
    (result.entry # "none" /\ prev.entry = result.entry)
        => prev.outcome = result.outcome

=============================================================================
